---------------------------- MODULE Spec2Model ----------------------------
(***************************************************************************)
(* Model of the Protonmail MCP server: the send_email pipeline (schema     *)
(* validation, normalization, allow list, rate limiter, SMTP transport,    *)
(* last-send slot) and the health_check report.                            *)
(*                                                                         *)
(* A JavaScript string is a sequence of one-character strings; a           *)
(* JavaScript value is a record tagged with its typeof.  Texts the server  *)
(* builds from templates are sequences of parts: the literal pieces are    *)
(* TLA+ strings, the interpolated pieces are JavaScript strings.           *)
(***************************************************************************)
EXTENDS Integers, Sequences, FiniteSets, TLC

(***************************************************************************)
(* JavaScript values and strings                                           *)
(***************************************************************************)
Undefined == [t |-> "undefined"]
Str(s) == [t |-> "string", v |-> s]
Bool(b) == [t |-> "boolean", v |-> b]
Num(n) == [t |-> "number", nan |-> FALSE, v |-> n]
NaN == [t |-> "number", nan |-> TRUE, v |-> 0]

\* `!rawValue` of a string-or-undefined value
Falsy(x) == x.t = "undefined" \/ (x.t = "string" /\ x.v = <<>>)

WhiteSpace == {" ", "\n", "\r"}

RECURSIVE TrimStart(_)
TrimStart(s) ==
  IF s # <<>> /\ Head(s) \in WhiteSpace THEN TrimStart(Tail(s)) ELSE s

RECURSIVE TrimEnd(_)
TrimEnd(s) ==
  IF s # <<>> /\ s[Len(s)] \in WhiteSpace
    THEN TrimEnd(SubSeq(s, 1, Len(s) - 1))
    ELSE s

\* String.prototype.trim
Trim(s) == TrimEnd(TrimStart(s))

LowerChar(c) == CASE c = "A" -> "a" [] c = "B" -> "b" [] OTHER -> c

\* String.prototype.toLowerCase
ToLowerCase(s) == [k \in 1..Len(s) |-> LowerChar(s[k])]

\* String.prototype.split(","): the pieces between commas, empty ones kept
RECURSIVE SplitFrom(_, _, _)
SplitFrom(s, k, piece) ==
  IF k > Len(s) THEN <<piece>>
  ELSE IF s[k] = "," THEN <<piece>> \o SplitFrom(s, k + 1, <<>>)
  ELSE SplitFrom(s, k + 1, Append(piece, s[k]))

Split(s) == SplitFrom(s, 1, <<>>)

\* Array.prototype.join(", ")
RECURSIVE Join(_)
Join(list) ==
  IF list = <<>> THEN <<>>
  ELSE IF Len(list) = 1 THEN list[1]
  ELSE list[1] \o <<",", " ">> \o Join(Tail(list))

Range(list) == {list[k] : k \in 1..Len(list)}

McpError(code, message) == [code |-> code, message |-> message]
Ok(value) == [ok |-> TRUE, value |-> value]
Throw(error) == [ok |-> FALSE, error |-> error]

(***************************************************************************)
(* Schema validation                                                       *)
(***************************************************************************)
MaxToLength == 2048
MaxSubjectLength == 512
MaxBodyLength == 20000

\* z.string().min(1, requiredMessage).max(maxLength)
RequiredStringIssues(value, path, requiredMessage, maxLength) ==
  IF value.t # "string" THEN
    <<[path |-> path,
       message |-> IF value.t = "undefined" THEN "Required"
                   ELSE "Expected string"]>>
  ELSE IF Len(value.v) < 1 THEN <<[path |-> path, message |-> requiredMessage]>>
  ELSE IF Len(value.v) > maxLength THEN <<[path |-> path, message |-> "Too long"]>>
  ELSE <<>>

\* z.string().optional() and z.boolean().optional()
OptionalIssues(value, path, type) ==
  IF value.t \in {"undefined", type} THEN <<>>
  ELSE <<[path |-> path,
          message |-> IF type = "string" THEN "Expected string"
                      ELSE "Expected boolean"]>>

sendEmailSchemaIssues(args) ==
     RequiredStringIssues(args.to, "to", "'to' is required", MaxToLength)
  \o RequiredStringIssues(args.subject, "subject", "'subject' is required",
                          MaxSubjectLength)
  \o RequiredStringIssues(args.body, "body", "'body' is required", MaxBodyLength)
  \o OptionalIssues(args.isHtml, "isHtml", "boolean")
  \o OptionalIssues(args.cc, "cc", "string")
  \o OptionalIssues(args.bcc, "bcc", "string")

parseSendEmailArgs(args) ==
  LET issues == sendEmailSchemaIssues(args) IN
    IF issues = <<>> THEN Ok(args)
    ELSE Throw(McpError("InvalidParams", issues))

(***************************************************************************)
(* Header sanitizing and recipient normalization                           *)
(***************************************************************************)
\* As HEADER_INJECTION_PATTERN, the pattern being /\n/
HEADER_INJECTION_PATTERN_LF(value) == \E k \in 1..Len(value) : value[k] = "\n"

\* HEADER_INJECTION_PATTERN.test(value)
HEADER_INJECTION_PATTERN(value) == \E k \in 1..Len(value) : value[k] \in {"\r", "\n"}

\* As NewlineError, the error kind being invalid-request
NewlineErrorInvalidRequest(fieldName) ==
  McpError("InvalidRequest", <<"'", fieldName, "' cannot include newline characters">>)

NewlineError(fieldName) ==
  McpError("InvalidParams", <<"'", fieldName, "' cannot include newline characters">>)

sanitizeHeaderField(value, fieldName) ==
  IF HEADER_INJECTION_PATTERN(value) THEN Throw(NewlineError(fieldName))
  ELSE Ok(Trim(value))

NonEmpty(entry) == Len(entry) > 0

TrimAll(list) == [k \in 1..Len(list) |-> Trim(list[k])]

\* The entries of `list` at the indices in `keep`, in order
SubSeqAt(list, keep) ==
  [n \in 1..Cardinality(keep) |->
     list[CHOOSE k \in keep : Cardinality({j \in keep : j < k}) = n - 1]]

\* As normalizeRecipientList, an address kept only where it first occurs
normalizeRecipientListDeduplicated(rawValue, fieldName) ==
  IF Falsy(rawValue) THEN Ok(<<>>)
  ELSE IF HEADER_INJECTION_PATTERN(rawValue.v) THEN Throw(NewlineError(fieldName))
  ELSE LET list == SelectSeq(TrimAll(Split(rawValue.v)), NonEmpty)
       IN Ok(SubSeqAt(list, {k \in 1..Len(list) : \A j \in 1..(k - 1) : list[j] # list[k]}))

normalizeRecipientList(rawValue, fieldName) ==
  IF Falsy(rawValue) THEN Ok(<<>>)
  ELSE IF HEADER_INJECTION_PATTERN(rawValue.v) THEN Throw(NewlineError(fieldName))
  ELSE Ok(SelectSeq(TrimAll(Split(rawValue.v)), NonEmpty))

\* As normalizeEmailArgs, without the check of an empty toList
normalizeEmailArgsAnyTo(rawArgs) ==
  LET toList == normalizeRecipientList(rawArgs.to, "to") IN
  IF ~toList.ok THEN toList
  ELSE
    LET ccList == normalizeRecipientList(rawArgs.cc, "cc") IN
    IF ~ccList.ok THEN ccList
    ELSE
      LET bccList == normalizeRecipientList(rawArgs.bcc, "bcc") IN
      IF ~bccList.ok THEN bccList
      ELSE
        LET subject == sanitizeHeaderField(rawArgs.subject.v, "subject") IN
        IF ~subject.ok THEN subject
        ELSE Ok([to |-> toList.value,
                 subject |-> subject.value,
                 body |-> rawArgs.body.v,
                 isHtml |-> (rawArgs.isHtml.t = "boolean" /\ rawArgs.isHtml.v),
                 cc |-> ccList.value,
                 bcc |-> bccList.value])

normalizeEmailArgs(rawArgs) ==
  LET toList == normalizeRecipientList(rawArgs.to, "to") IN
  IF ~toList.ok THEN toList
  ELSE IF Len(toList.value) = 0 THEN
    Throw(McpError("InvalidParams", <<"At least one recipient is required">>))
  ELSE
    LET ccList == normalizeRecipientList(rawArgs.cc, "cc") IN
    IF ~ccList.ok THEN ccList
    ELSE
      LET bccList == normalizeRecipientList(rawArgs.bcc, "bcc") IN
      IF ~bccList.ok THEN bccList
      ELSE
        LET subject == sanitizeHeaderField(rawArgs.subject.v, "subject") IN
        IF ~subject.ok THEN subject
        ELSE Ok([to |-> toList.value,
                 subject |-> subject.value,
                 body |-> rawArgs.body.v,
                 isHtml |-> (rawArgs.isHtml.t = "boolean" /\ rawArgs.isHtml.v),
                 cc |-> ccList.value,
                 bcc |-> bccList.value])

(***************************************************************************)
(* Allow list, rate limiter, mail message                                  *)
(***************************************************************************)
\* new Set(env.split(",").map(trim().toLowerCase()).filter(Boolean))
AllowListFromEnv(env) ==
  LET entries == Split(env)
      lowered == [k \in 1..Len(entries) |-> ToLowerCase(Trim(entries[k]))]
  IN Range(SelectSeq(lowered, NonEmpty))

\* As Disallowed, the recipient compared as written, not lower-cased
DisallowedCaseSensitive(recipients, allowList) ==
  LET NotListed(recipient) == recipient \notin allowList
  IN SelectSeq(recipients, NotListed)

Disallowed(recipients, allowList) ==
  LET NotListed(recipient) == ToLowerCase(recipient) \notin allowList
  IN SelectSeq(recipients, NotListed)

\* As enforceAllowList, an empty allow list enforced as well
enforceAllowListAlways(recipients, allowList) ==
  LET disallowed == Disallowed(recipients, allowList) IN
    IF Len(disallowed) > 0 THEN
      Throw(McpError("InvalidRequest",
                     <<"Recipient(s) not permitted by allow list: ", Join(disallowed)>>))
    ELSE Ok(recipients)

enforceAllowList(recipients, allowList) ==
  IF ~(Cardinality(allowList) > 0) THEN Ok(recipients)
  ELSE LET disallowed == Disallowed(recipients, allowList) IN
    IF Len(disallowed) > 0 THEN
      Throw(McpError("InvalidRequest",
                     <<"Recipient(s) not permitted by allow list: ", Join(disallowed)>>))
    ELSE Ok(recipients)

formatRecipientField(list) == IF Len(list) # 0 THEN Str(Join(list)) ELSE Undefined

WINDOW_MS == 60000

\* As LimitEnabled, a limit of zero taken as a limit
LimitEnabledAtZero(limit) == ~limit.nan /\ ~(limit.v < 0)

LimitEnabled(limit) == ~limit.nan /\ ~(limit.v <= 0)

\* As checkRateLimit, the quota compared with > where the code has >=
checkRateLimitOffByOne(state, limit, clock) ==
  IF ~LimitEnabled(limit) THEN [ok |-> TRUE, state |-> state]
  ELSE
    LET rolled == IF clock - state.windowStart >= WINDOW_MS
                    THEN [windowStart |-> clock, count |-> 0]
                    ELSE state
    IN IF rolled.count > limit.v THEN
         [ok |-> FALSE, state |-> rolled,
          error |-> McpError("InvalidRequest",
                             <<"Rate limit exceeded (", limit.v, " emails per minute)">>)]
       ELSE [ok |-> TRUE, state |-> [rolled EXCEPT !.count = @ + 1]]

\* As checkRateLimit, the window rolled over as soon as the clock has moved
checkRateLimitShortWindow(state, limit, clock) ==
  IF ~LimitEnabled(limit) THEN [ok |-> TRUE, state |-> state]
  ELSE
    LET rolled == IF clock - state.windowStart >= 1
                    THEN [windowStart |-> clock, count |-> 0]
                    ELSE state
    IN IF rolled.count >= limit.v THEN
         [ok |-> FALSE, state |-> rolled,
          error |-> McpError("InvalidRequest",
                             <<"Rate limit exceeded (", limit.v, " emails per minute)">>)]
       ELSE [ok |-> TRUE, state |-> [rolled EXCEPT !.count = @ + 1]]

\* As checkRateLimit, the count taken from before the rollover when incremented
checkRateLimitStaleCount(state, limit, clock) ==
  IF ~LimitEnabled(limit) THEN [ok |-> TRUE, state |-> state]
  ELSE
    LET rolled == IF clock - state.windowStart >= WINDOW_MS
                    THEN [windowStart |-> clock, count |-> 0]
                    ELSE state
    IN IF rolled.count >= limit.v THEN
         [ok |-> FALSE, state |-> rolled,
          error |-> McpError("InvalidRequest",
                             <<"Rate limit exceeded (", limit.v, " emails per minute)">>)]
       ELSE [ok |-> TRUE, state |-> [rolled EXCEPT !.count = state.count + 1]]

\* As checkRateLimit, the count reset at the rollover and windowStart left
checkRateLimitKeepsWindowStart(state, limit, clock) ==
  IF ~LimitEnabled(limit) THEN [ok |-> TRUE, state |-> state]
  ELSE
    LET rolled == IF clock - state.windowStart >= WINDOW_MS
                    THEN [windowStart |-> state.windowStart, count |-> 0]
                    ELSE state
    IN IF rolled.count >= limit.v THEN
         [ok |-> FALSE, state |-> rolled,
          error |-> McpError("InvalidRequest",
                             <<"Rate limit exceeded (", limit.v, " emails per minute)">>)]
       ELSE [ok |-> TRUE, state |-> [rolled EXCEPT !.count = @ + 1]]

\* As checkRateLimit, a call turned away counted as well
checkRateLimitCountsRejected(state, limit, clock) ==
  IF ~LimitEnabled(limit) THEN [ok |-> TRUE, state |-> state]
  ELSE
    LET rolled == IF clock - state.windowStart >= WINDOW_MS
                    THEN [windowStart |-> clock, count |-> 0]
                    ELSE state
    IN IF rolled.count >= limit.v THEN
         [ok |-> FALSE, state |-> [rolled EXCEPT !.count = @ + 1],
          error |-> McpError("InvalidRequest",
                             <<"Rate limit exceeded (", limit.v, " emails per minute)">>)]
       ELSE [ok |-> TRUE, state |-> [rolled EXCEPT !.count = @ + 1]]

\* As checkRateLimit, the window started again by a call turned away
checkRateLimitRestartsWindow(state, limit, clock) ==
  IF ~LimitEnabled(limit) THEN [ok |-> TRUE, state |-> state]
  ELSE
    LET rolled == IF clock - state.windowStart >= WINDOW_MS
                    THEN [windowStart |-> clock, count |-> 0]
                    ELSE state
    IN IF rolled.count >= limit.v THEN
         [ok |-> FALSE, state |-> [rolled EXCEPT !.windowStart = clock],
          error |-> McpError("InvalidRequest",
                             <<"Rate limit exceeded (", limit.v, " emails per minute)">>)]
       ELSE [ok |-> TRUE, state |-> [rolled EXCEPT !.count = @ + 1]]

\* The limiter's verdict and the state it leaves
checkRateLimit(state, limit, clock) ==
  IF ~LimitEnabled(limit) THEN [ok |-> TRUE, state |-> state]
  ELSE
    LET rolled == IF clock - state.windowStart >= WINDOW_MS
                    THEN [windowStart |-> clock, count |-> 0]
                    ELSE state
    IN IF rolled.count >= limit.v THEN
         [ok |-> FALSE, state |-> rolled,
          error |-> McpError("InvalidRequest",
                             <<"Rate limit exceeded (", limit.v, " emails per minute)">>)]
       ELSE [ok |-> TRUE, state |-> [rolled EXCEPT !.count = @ + 1]]

PROTONMAIL_USERNAME == "me@proton.me"

\* As MailOf, the body in the text field of an HTML message too
MailOfTextAlways(message) ==
  [from |-> PROTONMAIL_USERNAME,
   to |-> message.to,
   cc |-> message.cc,
   bcc |-> message.bcc,
   subject |-> message.subject,
   text |-> Str(message.body),
   html |-> IF message.isHtml THEN Str(message.body) ELSE Undefined]

\* The message EmailService.sendEmail hands to transporter.sendMail
MailOf(message) ==
  [from |-> PROTONMAIL_USERNAME,
   to |-> message.to,
   cc |-> message.cc,
   bcc |-> message.bcc,
   subject |-> message.subject,
   text |-> IF ~message.isHtml THEN Str(message.body) ELSE Undefined,
   html |-> IF message.isHtml THEN Str(message.body) ELSE Undefined]

EmailMessageOf(normalized) ==
  [to |-> Join(normalized.to),
   subject |-> normalized.subject,
   body |-> normalized.body,
   isHtml |-> normalized.isHtml,
   cc |-> formatRecipientField(normalized.cc),
   bcc |-> formatRecipientField(normalized.bcc)]

\* The synchronous stages of the send_email case before the limiter
Admissible(args, allowList) ==
  IF args.t # "object" THEN Throw(McpError("InvalidParams", <<"Invalid arguments">>))
  ELSE
    LET parsedArgs == parseSendEmailArgs(args) IN
    IF ~parsedArgs.ok THEN parsedArgs
    ELSE
      LET normalized == normalizeEmailArgs(parsedArgs.value) IN
      IF ~normalized.ok THEN normalized
      ELSE
        LET allowed == enforceAllowList(
                         normalized.value.to \o normalized.value.cc \o normalized.value.bcc,
                         allowList)
        IN IF ~allowed.ok THEN allowed ELSE normalized

\* As HandleSend, checkRateLimit called before enforceAllowList
HandleSendLimiterFirst(args, allowList, state, limit, clock) ==
  LET admissible == Admissible(args, {}) IN
    IF ~admissible.ok THEN [ok |-> FALSE, error |-> admissible.error, state |-> state]
    ELSE
      LET limiter == checkRateLimit(state, limit, clock) IN
        IF ~limiter.ok
          THEN [ok |-> FALSE, error |-> limiter.error, state |-> limiter.state]
          ELSE
            LET allowed == Admissible(args, allowList) IN
              IF ~allowed.ok
                THEN [ok |-> FALSE, error |-> allowed.error, state |-> limiter.state]
                ELSE [ok |-> TRUE, normalized |-> admissible.value,
                      state |-> limiter.state]

\* The send_email case up to its await: the error thrown or the arguments to
\* send, and the limiter state left
HandleSend(args, allowList, state, limit, clock) ==
  LET admissible == Admissible(args, allowList) IN
    IF ~admissible.ok THEN [ok |-> FALSE, error |-> admissible.error, state |-> state]
    ELSE
      LET limiter == checkRateLimit(state, limit, clock) IN
        IF ~limiter.ok
          THEN [ok |-> FALSE, error |-> limiter.error, state |-> limiter.state]
          ELSE [ok |-> TRUE, normalized |-> admissible.value, state |-> limiter.state]

\* As EmailService.sendEmail, the transport's error swallowed
sendEmailSwallowsError(outcome) ==
  IF outcome.ok THEN Ok([success |-> TRUE, info |-> [messageId |-> outcome.messageId]])
  ELSE Ok([success |-> FALSE, info |-> [messageId |-> Undefined]])

\* EmailService.sendEmail: the transport's info, or its error thrown again
sendEmail(outcome) ==
  IF outcome.ok THEN Ok([success |-> TRUE, info |-> [messageId |-> outcome.messageId]])
  ELSE Throw(outcome.message)

SentText(normalized) ==
  <<"Email sent successfully to ", Join(normalized.to)>>
  \o (IF Len(normalized.cc) # 0 THEN <<" (CC: ", Join(normalized.cc), ")">> ELSE <<>>)
  \o (IF Len(normalized.bcc) # 0 THEN <<" (BCC: ", Join(normalized.bcc), ")">> ELSE <<>>)
  \o <<".">>

(***************************************************************************)
(* Health report                                                           *)
(***************************************************************************)
\* new Date(timestamp).toISOString(): the fields of the rendered instant
ToISOString(timestamp) ==
  [day |-> timestamp \div 86400000,
   hour |-> (timestamp \div 3600000) % 24,
   minute |-> (timestamp \div 60000) % 60,
   second |-> (timestamp \div 1000) % 60,
   millisecond |-> timestamp % 1000]

Null == [status |-> "null"]

\* Truthiness of an optional string
Truthy(x) == x.t = "string" /\ x.v # <<>>

\* EmailService.verifyConnection: true, or the transport's error thrown again
verifyConnection(probe) == IF probe.ok THEN Ok(TRUE) ELSE Throw(probe.message)

\* The try/catch around verifyConnection
SmtpStatus(probe) ==
  LET verified == verifyConnection(probe) IN
    IF verified.ok THEN <<"ok">> ELSE <<"error: ", verified.error>>

RateLimitInfo(state, limit) ==
  IF LimitEnabled(limit)
    THEN <<state.count, "/", limit.v, " in current minute window">>
    ELSE <<"disabled">>

AllowListInfo(allowList) ==
  IF Cardinality(allowList) > 0
    THEN <<"enabled (", Cardinality(allowList), " entries)">>
    ELSE <<"disabled">>

\* As LastSendInfo, the details of a success left out
LastSendInfoNoDetails(last) ==
  IF last.status = "null" THEN <<"no attempts yet">>
  ELSE IF last.status = "success" THEN <<"success at ", ToISOString(last.timestamp)>>
  ELSE <<"error at ", ToISOString(last.timestamp), ": ", last.error>>

LastSendInfo(last) ==
  IF last.status = "null" THEN <<"no attempts yet">>
  ELSE IF last.status = "success" THEN
    <<"success at ", ToISOString(last.timestamp)>>
    \o (IF Truthy(last.details) THEN <<" (", last.details.v, ")">> ELSE <<>>)
  ELSE <<"error at ", ToISOString(last.timestamp), ": ", last.error>>

\* As buildHealthReport, verifyConnection awaited outside a try/catch
buildHealthReportUncaught(probe, state, limit, allowList, last) ==
  IF ~verifyConnection(probe).ok THEN Throw(verifyConnection(probe).error)
  ELSE Ok([smtp |-> <<"SMTP: ", "ok">>,
           rateLimit |-> <<"Rate limit: ">> \o RateLimitInfo(state, limit),
           allowList |-> <<"Allow list: ">> \o AllowListInfo(allowList),
           lastSend |-> <<"Last send: ">> \o LastSendInfo(last)])

\* The four lines of buildHealthReport, the probe's outcome given
buildHealthReport(probe, state, limit, allowList, last) ==
  Ok([smtp |-> <<"SMTP: ">> \o SmtpStatus(probe),
      rateLimit |-> <<"Rate limit: ">> \o RateLimitInfo(state, limit),
      allowList |-> <<"Allow list: ">> \o AllowListInfo(allowList),
      lastSend |-> <<"Last send: ">> \o LastSendInfo(last)])

(***************************************************************************)
(* Startup                                                                 *)
(***************************************************************************)
TLSv1 == <<"T", "L", "S", "v", "1">>
TLSv1_1 == <<"T", "L", "S", "v", "1", ".", "1">>
TLSv1_2 == <<"T", "L", "S", "v", "1", ".", "2">>
TLSv1_3 == <<"T", "L", "S", "v", "1", ".", "3">>

allowedTlsVersions == <<TLSv1, TLSv1_1, TLSv1_2, TLSv1_3>>

\* process.env.X || fallback
EnvOr(value, fallback) == IF Truthy(value) THEN value.v ELSE fallback

\* As normalizeTlsVersion, the fallback the second entry of allowedTlsVersions
normalizeTlsVersionSecondOldest(version) ==
  IF version \in Range(allowedTlsVersions) THEN version ELSE allowedTlsVersions[2]

normalizeTlsVersion(version) ==
  IF version \in Range(allowedTlsVersions) THEN version ELSE TLSv1_2

Starting == [status |-> "starting"]
Running == [status |-> "running"]
Exited(code) == [status |-> "exited", code |-> code]

\* main: the server connected once the probe succeeded, exit(1) otherwise
main(probe) == IF verifyConnection(probe).ok THEN Running ELSE Exited(1)

(***************************************************************************)
(* Bounds and inputs                                                       *)
(***************************************************************************)
MaxCalls == 4
MaxAdvances == 3

Slots == {1, 2}

\* Clock steps: one millisecond, and one millisecond short of a window
ClockSteps == {1, WINDOW_MS - 1}

\* parseInt(PROTONMAIL_RATE_LIMIT_PER_MINUTE || "10", 10)
RateLimits == {NaN, Num(0 - 1), Num(0), Num(1), Num(2)}

\* PROTONMAIL_ALLOW_LIST
AllowListEnvs == {<<>>, <<" ", "A", ",">>}

Email(to, subject, body, isHtml, cc, bcc) ==
  [t |-> "object", to |-> to, subject |-> subject, body |-> body,
   isHtml |-> isHtml, cc |-> cc, bcc |-> bcc]

Requests ==
  { Email(Str(<<"a">>), Str(<<"s">>), Str(<<"x">>), Undefined, Undefined, Undefined),
    Email(Str(<<"A", ",", " ", "b">>), Str(<<" ", "s">>), Str(<<"x">>), Bool(TRUE),
          Str(<<"B">>), Str(<<>>)),
    Email(Str(<<"a">>), Str(<<"s", "\n">>), Str(<<"x">>), Bool(FALSE), Undefined,
          Str(<<"b">>)) }

\* What transporter.sendMail can answer
SendOutcomes ==
  { [ok |-> TRUE, messageId |-> Undefined],
    [ok |-> TRUE, messageId |-> Str(<<"1">>)],
    [ok |-> FALSE, message |-> <<"E">>] }

\* What transporter.verify can answer
ProbeOutcomes == { [ok |-> TRUE], [ok |-> FALSE, message |-> <<"V">>] }

ToolNames == {"list_tools"}

\* PROTONMAIL_TLS_MIN_VERSION in the environment
TlsEnvs ==
  { Undefined, Str(<<>>), Str(TLSv1), Str(TLSv1_1), Str(TLSv1_2), Str(TLSv1_3),
    Str(<<"t", "l", "s", "v", "1", ".", "1">>),
    Str(<<"T", "L", "S", "v", "1", ".", "4">>),
    Str(TLSv1_3 \o <<" ">>),
    Str(<<"S", "S", "L", "v", "3">>) }

(***************************************************************************)
(* State                                                                   *)
(***************************************************************************)
VARIABLES
  RATE_LIMIT_PER_MINUTE,  \* configuration, fixed at startup
  ALLOW_LIST,             \* configuration, fixed at startup
  PROTONMAIL_TLS_MIN_VERSION, \* configuration: the version asked for
  TLS_MIN_VERSION,        \* configuration: the version handed to the transport
  process,                \* starting, running or exited
  now,                    \* Date.now()
  advances,               \* clock steps taken
  rateLimiterState,       \* windowStart, count
  lastSendResult,         \* the last-send slot
  sends,                  \* send_email invocations suspended at sendMail
  health,                 \* the health_check invocation suspended at verify
  calls,                  \* tool calls received
  event,                  \* the latest thing the server did towards the outside
  sendMailCalls,          \* invocations of transporter.sendMail
  admitTimes,             \* history: the clock at each admission
  attempt                 \* history: the latest answer of the transport

vars ==
  <<RATE_LIMIT_PER_MINUTE, ALLOW_LIST, PROTONMAIL_TLS_MIN_VERSION, TLS_MIN_VERSION,
    process, now, advances, rateLimiterState, lastSendResult, sends, health, calls, event, sendMailCalls, admitTimes,
    attempt>>

config ==
  <<RATE_LIMIT_PER_MINUTE, ALLOW_LIST, PROTONMAIL_TLS_MIN_VERSION, TLS_MIN_VERSION>>
clock == <<now, advances>>

Idle == [pc |-> "idle"]
NoEvent == [kind |-> "none", id |-> 0]
NoAttempt == [id |-> 0]

Init ==
  /\ RATE_LIMIT_PER_MINUTE \in RateLimits
  /\ ALLOW_LIST \in {AllowListFromEnv(env) : env \in AllowListEnvs}
  /\ PROTONMAIL_TLS_MIN_VERSION \in {EnvOr(env, TLSv1_2) : env \in TlsEnvs}
  /\ TLS_MIN_VERSION = normalizeTlsVersion(PROTONMAIL_TLS_MIN_VERSION)
  /\ process = Starting
  /\ now = 0
  /\ advances = 0
  /\ rateLimiterState = [windowStart |-> 0, count |-> 0]
  /\ lastSendResult = Null
  /\ sends = [i \in Slots |-> Idle]
  /\ health = Idle
  /\ calls = 0
  /\ event = NoEvent
  /\ sendMailCalls = 0
  /\ admitTimes = <<>>
  /\ attempt = NoAttempt

\* send_email threw before its await
Rejected(id, args, error) ==
  [kind |-> "rejected", id |-> id, tool |-> "send_email", args |-> args,
   error |-> error]

\* send_email called transporter.sendMail
Dispatched(id, args, mail) ==
  [kind |-> "dispatched", id |-> id, tool |-> "send_email", args |-> args,
   mail |-> mail]

\* a handler threw after its await, or for an unknown tool
Failed(id, tool, error) ==
  [kind |-> "failed", id |-> id, tool |-> tool, error |-> error]

\* a handler returned its content
Returned(id, tool, content) ==
  [kind |-> "returned", id |-> id, tool |-> tool, content |-> content]

(***************************************************************************)
(* Actions                                                                 *)
(***************************************************************************)
\* The clock moves on
Advance(step) ==
  /\ process.status # "exited"
  /\ advances < MaxAdvances
  /\ now' = now + step
  /\ advances' = advances + 1
  /\ UNCHANGED <<config, process, rateLimiterState, lastSendResult, sends, health, calls,
                 event, sendMailCalls, admitTimes, attempt>>

FreeSlot(i) == sends[i] = Idle /\ \A j \in Slots : j < i => sends[j] # Idle

\* send_email up to its await: rejected, or handed to the transport
SendEmail(i, args) ==
  /\ process = Running
  /\ calls < MaxCalls
  /\ FreeSlot(i)
  /\ calls' = calls + 1
  /\ LET handled == HandleSend(args, ALLOW_LIST, rateLimiterState,
                               RATE_LIMIT_PER_MINUTE, now)
     IN
       /\ rateLimiterState' = handled.state
       /\ IF ~handled.ok THEN
            /\ event' = Rejected(calls + 1, args, handled.error)
            /\ UNCHANGED <<sends, sendMailCalls, admitTimes>>
          ELSE
            /\ sends' = [sends EXCEPT ![i] = [pc |-> "sendMail", id |-> calls + 1,
                                              normalized |-> handled.normalized]]
            /\ event' = Dispatched(calls + 1, args,
                                   MailOf(EmailMessageOf(handled.normalized)))
            /\ sendMailCalls' = sendMailCalls + 1
            /\ admitTimes' = Append(admitTimes, now)
  /\ UNCHANGED <<config, process, clock, lastSendResult, health, attempt>>

SuccessResult(timestamp, result) ==
  [status |-> "success", timestamp |-> timestamp, details |-> result.info.messageId]

ErrorResult(timestamp, message) ==
  [status |-> "error", timestamp |-> timestamp, error |-> message]

\* As AfterSend, the admission given back when the transport failed
AfterSendRefund(state, result) ==
  IF result.ok THEN state ELSE [state EXCEPT !.count = @ - 1]

\* The limiter state send_email leaves after its await
AfterSend(state, result) == state

\* As SendReturns, a failed send handed to the transport once more
SendReturnsRetries(i, outcome) ==
  /\ sends[i] # Idle
  /\ IF outcome.ok THEN
       /\ sends' = [sends EXCEPT ![i] = Idle]
       /\ attempt' = [id |-> sends[i].id, outcome |-> outcome, at |-> now]
       /\ lastSendResult' = SuccessResult(now, sendEmail(outcome).value)
       /\ event' = Returned(sends[i].id, "send_email", SentText(sends[i].normalized))
       /\ UNCHANGED sendMailCalls
     ELSE
       /\ sendMailCalls' = sendMailCalls + 1
       /\ sendMailCalls < MaxCalls + 2
       /\ event' = Dispatched(sends[i].id, Undefined,
                              MailOf(EmailMessageOf(sends[i].normalized)))
       /\ UNCHANGED <<sends, attempt, lastSendResult>>
  /\ UNCHANGED <<config, process, clock, rateLimiterState, health, calls, admitTimes>>

\* As SendReturns, the slot written only for the latest call answered so far
SendReturnsLatestCallWins(i, outcome) ==
  /\ sends[i] # Idle
  /\ sends' = [sends EXCEPT ![i] = Idle]
  /\ attempt' = [id |-> sends[i].id, outcome |-> outcome, at |-> now]
  /\ LET result == sendEmail(outcome) IN
       /\ rateLimiterState' = AfterSend(rateLimiterState, result)
       /\ lastSendResult' =
            IF attempt # NoAttempt /\ attempt.id > sends[i].id THEN lastSendResult
            ELSE IF result.ok THEN SuccessResult(now, result.value)
            ELSE ErrorResult(now, result.error)
       /\ event' =
            IF result.ok
              THEN Returned(sends[i].id, "send_email", SentText(sends[i].normalized))
              ELSE Failed(sends[i].id, "send_email",
                          McpError("InternalError",
                                   <<"Failed to send email: ", result.error>>))
  /\ UNCHANGED <<config, process, clock, health, calls, sendMailCalls, admitTimes>>

\* send_email after its await: the transport answered
SendReturns(i, outcome) ==
  /\ sends[i] # Idle
  /\ sends' = [sends EXCEPT ![i] = Idle]
  /\ attempt' = [id |-> sends[i].id, outcome |-> outcome, at |-> now]
  /\ LET result == sendEmail(outcome) IN
       /\ rateLimiterState' = AfterSend(rateLimiterState, result)
       /\ IF result.ok THEN
            /\ lastSendResult' = SuccessResult(now, result.value)
            /\ event' = Returned(sends[i].id, "send_email",
                                 SentText(sends[i].normalized))
          ELSE
            /\ lastSendResult' = ErrorResult(now, result.error)
            /\ event' = Failed(sends[i].id, "send_email",
                               McpError("InternalError",
                                        <<"Failed to send email: ", result.error>>))
  /\ UNCHANGED <<config, process, clock, health, calls, sendMailCalls, admitTimes>>

\* health_check up to its await on verifyConnection
HealthCheck ==
  /\ process = Running
  /\ calls < MaxCalls
  /\ health = Idle
  /\ calls' = calls + 1
  /\ health' = [pc |-> "verify", id |-> calls + 1, issued |-> attempt]
  /\ UNCHANGED <<config, process, clock, rateLimiterState, lastSendResult, sends, event,
                 sendMailCalls, admitTimes, attempt>>

\* As HealthReturns, an expired window rolled over before the report is built
HealthReturnsRollsWindow(probe) ==
  /\ health # Idle
  /\ health' = Idle
  /\ rateLimiterState' =
       IF LimitEnabled(RATE_LIMIT_PER_MINUTE)
          /\ now - rateLimiterState.windowStart >= WINDOW_MS
         THEN [windowStart |-> now, count |-> 0]
         ELSE rateLimiterState
  /\ LET report == buildHealthReport(probe, rateLimiterState', RATE_LIMIT_PER_MINUTE,
                                     ALLOW_LIST, lastSendResult)
     IN event' = IF report.ok
                   THEN Returned(health.id, "health_check", report.value)
                   ELSE Failed(health.id, "health_check", report.error)
  /\ UNCHANGED <<config, process, clock, lastSendResult, sends, calls,
                 sendMailCalls, admitTimes, attempt>>

\* health_check after its await: the probe answered, the report is built
HealthReturns(probe) ==
  /\ health # Idle
  /\ health' = Idle
  /\ LET report == buildHealthReport(probe, rateLimiterState, RATE_LIMIT_PER_MINUTE,
                                     ALLOW_LIST, lastSendResult)
     IN event' = IF report.ok
                   THEN Returned(health.id, "health_check", report.value)
                   ELSE Failed(health.id, "health_check", report.error)
  /\ UNCHANGED <<config, process, clock, rateLimiterState, lastSendResult, sends, calls,
                 sendMailCalls, admitTimes, attempt>>

\* A tool name the switch does not know
UnknownTool(name) ==
  /\ process = Running
  /\ calls < MaxCalls
  /\ calls' = calls + 1
  /\ event' = Failed(calls + 1, name,
                     McpError("MethodNotFound", <<"Unknown tool: ", name>>))
  /\ UNCHANGED <<config, process, clock, rateLimiterState, lastSendResult, sends, health,
                 sendMailCalls, admitTimes, attempt>>

\* main after its await on verifyConnection: the server connects, or the
\* process exits
Main(probe) ==
  /\ process = Starting
  /\ process' = main(probe)
  /\ UNCHANGED <<config, clock, rateLimiterState, lastSendResult, sends, health, calls,
                 event, sendMailCalls, admitTimes, attempt>>

Next ==
  \/ \E probe \in ProbeOutcomes : Main(probe)
  \/ \E step \in ClockSteps : Advance(step)
  \/ \E i \in Slots, args \in Requests : SendEmail(i, args)
  \/ \E i \in Slots, outcome \in SendOutcomes : SendReturns(i, outcome)
  \/ HealthCheck
  \/ \E probe \in ProbeOutcomes : HealthReturns(probe)
  \/ \E name \in ToolNames : UnknownTool(name)

\* The whole server
Spec == Init /\ [][Next]_vars

(***************************************************************************)
(* The limiter under overlapping sends and a moving clock                  *)
(***************************************************************************)
InitLimiter ==
  /\ Init
  /\ RATE_LIMIT_PER_MINUTE \in {Num(1), Num(2)}
  /\ ALLOW_LIST = AllowListFromEnv(<<" ", "A", ",">>)
  /\ PROTONMAIL_TLS_MIN_VERSION = TLSv1_2

NextLimiter ==
  \/ \E probe \in ProbeOutcomes : Main(probe)
  \/ \E step \in ClockSteps : Advance(step)
  \/ \E i \in Slots, args \in Requests : SendEmail(i, args)
  \/ \E i \in Slots, outcome \in SendOutcomes : SendReturns(i, outcome)

SpecLimiter == InitLimiter /\ [][NextLimiter]_vars

(***************************************************************************)
(* Startup under every configuration, then health_check and unknown tools  *)
(***************************************************************************)
NextStartup ==
  \/ \E probe \in ProbeOutcomes : Main(probe)
  \/ HealthCheck
  \/ \E probe \in ProbeOutcomes : HealthReturns(probe)
  \/ \E name \in ToolNames : UnknownTool(name)

SpecStartup == Init /\ [][NextStartup]_vars

(***************************************************************************)
(* Overlapping sends and health_check, the transport answering in the end  *)
(***************************************************************************)
InitLive ==
  /\ Init
  /\ RATE_LIMIT_PER_MINUTE = Num(2)
  /\ ALLOW_LIST = {}
  /\ PROTONMAIL_TLS_MIN_VERSION = TLSv1_2

NextLive ==
  \/ \E probe \in ProbeOutcomes : Main(probe)
  \/ \E i \in Slots, args \in Requests : SendEmail(i, args)
  \/ \E i \in Slots, outcome \in SendOutcomes : SendReturns(i, outcome)
  \/ HealthCheck
  \/ \E probe \in ProbeOutcomes : HealthReturns(probe)

\* transporter.sendMail settles: each pending send is answered in the end
SendMailSettles ==
  \A i \in Slots : WF_vars(\E outcome \in SendOutcomes : SendReturns(i, outcome))

SpecLive == InitLive /\ [][NextLive]_vars /\ SendMailSettles

(***************************************************************************)
(* Overlapping sends with the limiter disabled                             *)
(***************************************************************************)
HealthRequests ==
  { Email(Str(<<"a">>), Str(<<"s">>), Str(<<"x">>), Undefined, Undefined, Undefined) }

\* The limits that are not finite or not positive
DisabledLimits == {limit \in RateLimits : limit.nan \/ limit.v <= 0}

InitDisabled ==
  /\ Init
  /\ RATE_LIMIT_PER_MINUTE \in DisabledLimits
  /\ ALLOW_LIST = {}
  /\ PROTONMAIL_TLS_MIN_VERSION = TLSv1_2

NextDisabled ==
  \/ \E probe \in ProbeOutcomes : Main(probe)
  \/ \E step \in ClockSteps : Advance(step)
  \/ \E i \in Slots, args \in HealthRequests : SendEmail(i, args)
  \/ \E i \in Slots, outcome \in SendOutcomes : SendReturns(i, outcome)

SpecDisabled == InitDisabled /\ [][NextDisabled]_vars

(***************************************************************************)
(* health_check beside one send at a time                                  *)
(***************************************************************************)
InitHealth ==
  /\ Init
  /\ \/ RATE_LIMIT_PER_MINUTE = Num(0) /\ ALLOW_LIST = {}
     \/ RATE_LIMIT_PER_MINUTE = Num(2) /\ ALLOW_LIST # {}
  /\ PROTONMAIL_TLS_MIN_VERSION = TLSv1_2

NextHealth ==
  \/ \E probe \in ProbeOutcomes : Main(probe)
  \/ \E step \in ClockSteps : Advance(step)
  \/ \E args \in HealthRequests : SendEmail(1, args)
  \/ \E outcome \in SendOutcomes : SendReturns(1, outcome)
  \/ HealthCheck
  \/ \E probe \in ProbeOutcomes : HealthReturns(probe)

SpecHealth == InitHealth /\ [][NextHealth]_vars

(***************************************************************************)
(* One request, drawn from a wide set, through the pipeline                *)
(***************************************************************************)
MaxChars == 3

Alphabet == {"a", "A", "b", ",", " ", "\n", "\r"}

Strings(length) == [1..length -> Alphabet]

OptStr(s) == IF s = <<>> THEN Undefined ELSE Str(s)

\* The lengths of to, cc and bcc: at most MaxChars characters together
RecipientLengths ==
  { l \in (0..MaxChars) \X (0..MaxChars) \X (0..MaxChars) : l[1] + l[2] + l[3] <= MaxChars }

RecipientRequest(to, cc, bcc) ==
  Email(Str(to), Str(<<"s">>), Str(<<"x">>), Undefined, OptStr(cc), OptStr(bcc))

\* the other fields, and values of the wrong type
FieldRequests ==
  { Email(to, subject, body, isHtml, cc, Undefined) :
      to \in {Undefined, Num(1), Str(<<"a">>), Str(<<"\r">>)},
      subject \in {Undefined, Str(<<>>), Str(<<" ">>), Str(<<"s">>), Str(<<" ", "s", " ">>),
                   Str(<<"s", "\n">>), Str(<<"\r", "s">>)},
      body \in {Undefined, Str(<<>>), Str(<<"x">>), Str(<<"\n">>)},
      isHtml \in {Undefined, Bool(TRUE), Bool(FALSE), Str(<<"x">>)},
      cc \in {Undefined, Str(<<>>), Num(1), Str(<<"\r">>)} }

\* "a, a, b": an address twice
DuplicateRequest ==
  Email(Str(<<"a", ",", " ", "a", ",", " ", "b">>), Str(<<"s">>), Str(<<"x">>),
        Undefined, Undefined, Undefined)

\* an HTML body with white space around it, to a, cc "a,b", bcc b
HtmlRequest ==
  Email(Str(<<"a">>), Str(<<" ", "s", " ">>), Str(<<"\n", "x", " ">>),
        Bool(TRUE), Str(<<"a", ",", "b">>), Str(<<"b">>))

OtherRequests == FieldRequests \cup {Undefined, Num(1), DuplicateRequest, HtmlRequest}

FirstRequest == CHOOSE args \in HealthRequests : TRUE
FirstOutcome == [ok |-> TRUE, messageId |-> Undefined]

\* The server after `sent` sends, admitted and answered at startup time, and
\* MaxCalls - 1 calls in all, the others for an unknown tool
AfterSends(sent) ==
  /\ process = Running
  /\ now = 0
  /\ advances = 0
  /\ rateLimiterState =
       [windowStart |-> 0,
        count |-> IF LimitEnabled(RATE_LIMIT_PER_MINUTE) THEN sent ELSE 0]
  /\ lastSendResult =
       IF sent = 0 THEN Null ELSE SuccessResult(0, sendEmail(FirstOutcome).value)
  /\ attempt =
       IF sent = 0 THEN NoAttempt
       ELSE [id |-> MaxCalls - 1, outcome |-> FirstOutcome, at |-> 0]
  /\ sends = [i \in Slots |-> Idle]
  /\ health = Idle
  /\ calls = MaxCalls - 1
  /\ event = IF sent > 0
               THEN Returned(MaxCalls - 1, "send_email",
                             SentText(normalizeEmailArgs(FirstRequest).value))
             ELSE IF MaxCalls - 1 > 0
               THEN Failed(MaxCalls - 1, "list_tools",
                           McpError("MethodNotFound", <<"Unknown tool: ", "list_tools">>))
             ELSE NoEvent
  /\ sendMailCalls = sent
  /\ admitTimes = [k \in 1..sent |-> 0]

InitPipeline ==
  /\ PROTONMAIL_TLS_MIN_VERSION = TLSv1_2
  /\ TLS_MIN_VERSION = normalizeTlsVersion(PROTONMAIL_TLS_MIN_VERSION)
  /\ RATE_LIMIT_PER_MINUTE \in RateLimits
  /\ ALLOW_LIST \in {AllowListFromEnv(env) : env \in AllowListEnvs \cup {<<"a", ",", "B">>}}
  /\ \E sent \in 0..2 :
       /\ LimitEnabled(RATE_LIMIT_PER_MINUTE) => sent <= RATE_LIMIT_PER_MINUTE.v
       /\ sent > 0 => Admissible(FirstRequest, ALLOW_LIST).ok
       /\ AfterSends(sent)

NextPipeline ==
  \/ /\ calls < MaxCalls
     /\ \E lengths \in RecipientLengths :
          \E to \in Strings(lengths[1]), cc \in Strings(lengths[2]),
             bcc \in Strings(lengths[3]) :
            SendEmail(1, RecipientRequest(to, cc, bcc))
  \/ calls < MaxCalls /\ \E args \in OtherRequests : SendEmail(1, args)
  \/ \E outcome \in SendOutcomes : SendReturns(1, outcome)
  \/ \E name \in ToolNames : UnknownTool(name)

SpecPipeline == InitPipeline /\ [][NextPipeline]_vars

(***************************************************************************)
(* Properties                                                              *)
(***************************************************************************)
\* A step in which send_email ran up to its await
SendStep == event'.id = calls + 1 /\ event'.kind \in {"rejected", "dispatched"}

\* The admissions of the window that starts at `start`
AdmittedSince(start) == {k \in 1..Len(admitTimes) : admitTimes[k] >= start}

\* The admissions in the 60 seconds that start at `start`
AdmittedInSpan(start) ==
  {k \in 1..Len(admitTimes) : admitTimes[k] >= start /\ admitTimes[k] < start + WINDOW_MS}

RateLimitError(limit) ==
  McpError("InvalidRequest", <<"Rate limit exceeded (", limit, " emails per minute)">>)

\* C1: with a finite limit L > 0, a send_email call that reaches the limiter
\* less than 60000 ms after windowStart is admitted (the transport invoked) when
\* fewer than L calls were admitted in the window, and otherwise fails with the
\* rate-limit error carrying L, the transport not invoked; a call that reaches
\* it 60000 ms or more after windowStart is admitted and leaves the count at 1.
C1_WindowAdmission ==
  [][ (/\ SendStep
       /\ LimitEnabled(RATE_LIMIT_PER_MINUTE)
       /\ Admissible(event'.args, ALLOW_LIST).ok)
      =>
      IF now - rateLimiterState.windowStart >= 60000 THEN
        /\ event'.kind = "dispatched"
        /\ sendMailCalls' = sendMailCalls + 1
        /\ rateLimiterState'.count = 1
      ELSE IF Cardinality(AdmittedSince(rateLimiterState.windowStart))
                < RATE_LIMIT_PER_MINUTE.v THEN
        /\ event'.kind = "dispatched"
        /\ sendMailCalls' = sendMailCalls + 1
      ELSE
        /\ event'.kind = "rejected"
        /\ event'.error = RateLimitError(RATE_LIMIT_PER_MINUTE.v)
        /\ sendMailCalls' = sendMailCalls
        /\ sends' = sends ]_vars

\* Limit 2: two calls admitted in the first window, a third call turned away,
\* and a call after the rollover admitted with the count at 1
C1_Witness ==
  /\ RATE_LIMIT_PER_MINUTE = Num(2)
  /\ calls = 4
  /\ Len(admitTimes) = 3
  /\ admitTimes[2] < 60000
  /\ admitTimes[3] >= 60000
  /\ event.kind = "dispatched"
  /\ rateLimiterState = [windowStart |-> admitTimes[3], count |-> 1]

\* C2 as stated: in any span of 60 seconds at most L sends are admitted
C2_AnySpanAtMostLimit ==
  LimitEnabled(RATE_LIMIT_PER_MINUTE) =>
    \A k \in 1..Len(admitTimes) :
      Cardinality(AdmittedInSpan(admitTimes[k])) <= RATE_LIMIT_PER_MINUTE.v

\* C2, amended: at most L sends are admitted in one window (from windowStart
\* on), and at most 2 * L in any span of 60 seconds
C2_PerWindowAtMostLimit ==
  LimitEnabled(RATE_LIMIT_PER_MINUTE) =>
    /\ Cardinality(AdmittedSince(rateLimiterState.windowStart))
         <= RATE_LIMIT_PER_MINUTE.v
    /\ \A k \in 1..Len(admitTimes) :
         Cardinality(AdmittedInSpan(admitTimes[k])) <= 2 * RATE_LIMIT_PER_MINUTE.v

\* Limit 2: four sends admitted within 60 seconds, two on each side of a rollover
C2_Witness ==
  /\ RATE_LIMIT_PER_MINUTE = Num(2)
  /\ Len(admitTimes) = 4
  /\ admitTimes[4] - admitTimes[1] < 60000
  /\ rateLimiterState.windowStart = admitTimes[3]
  /\ rateLimiterState.count = 2

\* The transport was not invoked in the step
NoSendMail == sendMailCalls' = sendMailCalls /\ sends' = sends

\* Arguments that pass the schema and the normalization
WellFormed(args) ==
  /\ args.t = "object"
  /\ parseSendEmailArgs(args).ok
  /\ normalizeEmailArgs(args).ok

\* The normalized recipients of well-formed arguments: to, then cc, then bcc
Recipients(args) ==
  LET normalized == normalizeEmailArgs(args).value
  IN normalized.to \o normalized.cc \o normalized.bcc

\* The recipients whose lower-cased form is not in the allow set, as written
NotAllowed(args) ==
  LET Outside(recipient) == ToLowerCase(recipient) \notin ALLOW_LIST
  IN SelectSeq(Recipients(args), Outside)

\* C3: with a non-empty allow list, a send_email call whose arguments pass
\* validation and normalization and name a recipient (to, cc or bcc) whose
\* lower-cased form is not in the allow set fails with an invalid-request error
\* naming every such recipient as written, in the order to, cc, bcc, and the
\* transport is not invoked.
C3_AllowListViolation ==
  [][ (/\ SendStep
       /\ ALLOW_LIST # {}
       /\ WellFormed(event'.args)
       /\ NotAllowed(event'.args) # <<>>)
      =>
      /\ event'.kind = "rejected"
      /\ event'.error =
           McpError("InvalidRequest",
                    <<"Recipient(s) not permitted by allow list: ",
                      Join(NotAllowed(event'.args))>>)
      /\ NoSendMail ]_vars

\* Allow list {a}: to = "a", cc = "b", bcc = "A" is refused, naming b only
C3_Witness ==
  /\ ALLOW_LIST = {<<"a">>}
  /\ event.kind = "rejected"
  /\ event.args.t = "object"
  /\ event.args.to = Str(<<"a">>)
  /\ event.args.cc = Str(<<"b">>)
  /\ event.args.bcc = Str(<<"A">>)
  /\ event.error.code = "InvalidRequest"
  /\ event.error.message = <<"Recipient(s) not permitted by allow list: ", <<"b">>>>
  /\ \A i \in Slots : sends[i] = Idle

\* A string with a CR or an LF in it
HasLineBreak(value) ==
  value.t = "string" /\ \E k \in 1..Len(value.v) : value.v[k] \in {"\r", "\n"}

NoRecipientIn(value) ==
  value.t = "string" /\ \A k \in 1..Len(value.v) : value.v[k] \in {",", " ", "\n", "\r"}

\* C5: a send_email call whose `to` is empty, white space only, or commas and
\* white space only fails with an invalid-parameters error, and the transport
\* is not invoked.
C5_EmptyToRejected ==
  [][ (/\ SendStep
       /\ event'.args.t = "object"
       /\ NoRecipientIn(event'.args.to))
      =>
      /\ event'.kind = "rejected"
      /\ event'.error.code = "InvalidParams"
      /\ NoSendMail ]_vars

\* to = ", ," passes the schema and is refused for want of a recipient
C5_Witness ==
  /\ event.kind = "rejected"
  /\ event.args.t = "object"
  /\ event.args.to = Str(<<",", " ", ",">>)
  /\ event.error =
       McpError("InvalidParams", <<"At least one recipient is required">>)
  /\ \A i \in Slots : sends[i] = Idle

\* The limiter, enabled, has no room left for a call made now
WindowFull ==
  /\ LimitEnabled(RATE_LIMIT_PER_MINUTE)
  /\ now - rateLimiterState.windowStart < 60000
  /\ rateLimiterState.count >= RATE_LIMIT_PER_MINUTE.v

\* C8: send_email runs validation, normalization, the allow-list guard, the
\* limiter and the transport in this order and stops at the first failure: a
\* call is answered with the error of the first stage that fails, no later
\* stage having run (the limiter state is untouched by a call refused before
\* it, the transport is invoked only when all four stages passed, the last-send
\* slot is not written before the transport has answered), so that a request
\* outside the allow list made when the window is full is refused for the
\* allow list.
C8_StagesInOrder ==
  [][ SendStep =>
      LET args == event'.args IN
      /\ lastSendResult' = lastSendResult
      /\ IF args.t # "object" THEN
           /\ event'.kind = "rejected"
           /\ event'.error = McpError("InvalidParams", <<"Invalid arguments">>)
           /\ rateLimiterState' = rateLimiterState
           /\ NoSendMail
         ELSE IF ~parseSendEmailArgs(args).ok THEN
           /\ event'.kind = "rejected"
           /\ event'.error = parseSendEmailArgs(args).error
           /\ rateLimiterState' = rateLimiterState
           /\ NoSendMail
         ELSE IF ~normalizeEmailArgs(args).ok THEN
           /\ event'.kind = "rejected"
           /\ event'.error = normalizeEmailArgs(args).error
           /\ rateLimiterState' = rateLimiterState
           /\ NoSendMail
         ELSE IF ALLOW_LIST # {} /\ NotAllowed(args) # <<>> THEN
           /\ event'.kind = "rejected"
           /\ event'.error.code = "InvalidRequest"
           /\ event'.error.message[1] = "Recipient(s) not permitted by allow list: "
           /\ rateLimiterState' = rateLimiterState
           /\ NoSendMail
         ELSE IF WindowFull THEN
           /\ event'.kind = "rejected"
           /\ event'.error = RateLimitError(RATE_LIMIT_PER_MINUTE.v)
           /\ NoSendMail
         ELSE
           /\ event'.kind = "dispatched"
           /\ sendMailCalls' = sendMailCalls + 1 ]_vars

\* A request outside the allow list, made when the window is full, has been
\* refused for the allow list
C8_Witness ==
  /\ WindowFull
  /\ ALLOW_LIST # {}
  /\ event.kind = "rejected"
  /\ WellFormed(event.args)
  /\ NotAllowed(event.args) # <<>>
  /\ event.error.code = "InvalidRequest"
  /\ event.error.message[1] = "Recipient(s) not permitted by allow list: "

\* A step in which the transport answered a send
TransportAnswers == attempt' # attempt

\* C7: when an admitted send fails in the transport, the limiter state stays as
\* the admission left it: the count is not given back.
C7_NoRefund ==
  [][ (TransportAnswers /\ ~attempt'.outcome.ok)
      => /\ event'.kind = "failed"
         /\ rateLimiterState' = rateLimiterState ]_vars

\* Limit 1: the one admitted send failed in the transport, and the next call of
\* the same window was turned away by the limiter
C7_Witness ==
  /\ RATE_LIMIT_PER_MINUTE = Num(1)
  /\ sendMailCalls = 1
  /\ lastSendResult.status = "error"
  /\ now - rateLimiterState.windowStart < 60000
  /\ event.kind = "rejected"
  /\ event.error = RateLimitError(1)

\* What the last-send slot holds when `last` is the latest answer of the transport
SlotOf(last) ==
  IF last = NoAttempt THEN Null
  ELSE IF last.outcome.ok THEN
    [status |-> "success", timestamp |-> last.at, details |-> last.outcome.messageId]
  ELSE [status |-> "error", timestamp |-> last.at, error |-> last.outcome.message]

\* C9: with sends overlapping, the count is the number of admissions since the
\* window was last reset, and the last-send slot holds the status, the
\* timestamp and the detail or message of one attempt, the latest answered.
C9_SharedStateCoherent ==
  /\ LimitEnabled(RATE_LIMIT_PER_MINUTE) =>
       rateLimiterState.count = Cardinality(AdmittedSince(rateLimiterState.windowStart))
  /\ lastSendResult = SlotOf(attempt)

\* Two sends overlapped, the first dispatched was answered, the second is still
\* at the transport, and a third was admitted after a rollover
C9_Witness ==
  /\ sends[1] # Idle
  /\ sends[2] # Idle
  /\ attempt # NoAttempt
  /\ attempt.id < sends[2].id
  /\ sends[2].id < sends[1].id
  /\ rateLimiterState.windowStart >= 60000
  /\ rateLimiterState.count = 1

\* The last-send line that shows `last`, the latest answer of the transport
LastSendLine(last) ==
  IF last = NoAttempt THEN <<"Last send: ", "no attempts yet">>
  ELSE IF last.outcome.ok THEN
    <<"Last send: ", "success at ", ToISOString(last.at)>>
    \o (IF last.outcome.messageId.t = "string" /\ last.outcome.messageId.v # <<>>
          THEN <<" (", last.outcome.messageId.v, ")">>
          ELSE <<>>)
  ELSE <<"Last send: ", "error at ", ToISOString(last.at), ": ", last.outcome.message>>

\* A step in which health_check answers
HealthAnswers == health # Idle /\ health' = Idle

\* C6 as stated: a health_check issued after an attempt was answered, and
\* before a later one is, shows that attempt
C6_ShowsAttemptAtIssue ==
  [][ (HealthAnswers /\ health.issued # NoAttempt)
      => /\ event'.kind = "returned"
         /\ event'.content.lastSend = LastSendLine(health.issued) ]_vars

\* C6, amended: the last-send line of a health_check report shows the outcome
\* (success with its detail, error with its message) and the timestamp of the
\* attempt answered last before the report was built, that is, when the probe
\* returned; with no attempt answered by then it is "no attempts yet".
C6_ShowsLatestAttempt ==
  (event.kind = "returned" /\ event.tool = "health_check")
    => event.content.lastSend = LastSendLine(attempt)

\* A report showing a failed attempt that was made and answered while the
\* health_check was waiting for its probe
C6_Witness ==
  /\ event.kind = "returned"
  /\ event.tool = "health_check"
  /\ attempt # NoAttempt
  /\ attempt.id > event.id
  /\ ~attempt.outcome.ok
  /\ attempt.at > 0
  /\ event.content.lastSend =
       <<"Last send: ", "error at ", ToISOString(attempt.at), ": ", <<"E">>>>

\* C10: health_check answers with a report whatever the probe does: when the
\* probe fails the SMTP line is "error: <message>", and the rate-limit,
\* allow-list and last-send lines are those of the state.
C10_HealthNeverThrows ==
  [][ \A probe \in ProbeOutcomes :
        (HealthReturns(probe) /\ ~probe.ok)
        => /\ event'.kind = "returned"
           /\ event'.id = health.id
           /\ event'.content.smtp = <<"SMTP: ", "error: ", probe.message>>
           /\ event'.content.rateLimit =
                (IF LimitEnabled(RATE_LIMIT_PER_MINUTE)
                   THEN <<"Rate limit: ", rateLimiterState.count, "/",
                          RATE_LIMIT_PER_MINUTE.v, " in current minute window">>
                   ELSE <<"Rate limit: ", "disabled">>)
           /\ event'.content.allowList =
                (IF ALLOW_LIST # {}
                   THEN <<"Allow list: ", "enabled (", Cardinality(ALLOW_LIST), " entries)">>
                   ELSE <<"Allow list: ", "disabled">>)
           /\ event'.content.lastSend = LastSendLine(attempt) ]_vars

\* A report with the probe's failure as text, after a send was admitted and
\* answered
C10_Witness ==
  /\ event.kind = "returned"
  /\ event.tool = "health_check"
  /\ event.content.smtp = <<"SMTP: ", "error: ", <<"V">>>>
  /\ event.content.rateLimit = <<"Rate limit: ", 1, "/", 2, " in current minute window">>
  /\ event.content.allowList = <<"Allow list: ", "enabled (", 1, " entries)">>
  /\ attempt # NoAttempt
  /\ event.content.lastSend = LastSendLine(attempt)

\* A step of health_check: its call, or its answer
HealthStep == health' # health

\* C11: health_check has no effect on shared state: its call and its answer,
\* the probe succeeding or failing, leave windowStart, count and the last-send
\* slot as they were, so that any number of health_check calls with no send in
\* between leave them unchanged.
C11_HealthLeavesState ==
  [][ HealthStep
      => /\ rateLimiterState' = rateLimiterState
         /\ lastSendResult' = lastSendResult
         /\ sends' = sends
         /\ sendMailCalls' = sendMailCalls ]_vars

\* One send admitted and answered, then two health_check calls answered, the
\* second with a failed probe and more than a window later: the count and the
\* slot are those the send left
C11_Witness ==
  /\ attempt # NoAttempt
  /\ sendMailCalls = 1
  /\ sends[1] = Idle
  /\ health = Idle
  /\ calls = attempt.id + 2
  /\ event.kind = "returned"
  /\ event.tool = "health_check"
  /\ event.id = calls
  /\ event.content.smtp = <<"SMTP: ", "error: ", <<"V">>>>
  /\ now - attempt.at >= WINDOW_MS
  /\ rateLimiterState = [windowStart |-> 0, count |-> 1]
  /\ lastSendResult = SlotOf(attempt)

\* The error of a call turned away by the limiter
IsRateLimitError(error) ==
  error.code = "InvalidRequest" /\ error.message[1] = "Rate limit exceeded ("

\* C12: with a limit that is not finite or not positive the limiter is off: no
\* step changes windowStart or count, and a send_email call that passes the
\* allow list is handed to the transport, never turned away for the rate
\* limit, however many calls came before.
C12_DisabledNeverBlocks ==
  [][ (RATE_LIMIT_PER_MINUTE = NaN \/ RATE_LIMIT_PER_MINUTE.v <= 0)
      => /\ rateLimiterState' = rateLimiterState
         /\ SendStep =>
              /\ event'.kind = "rejected" => ~IsRateLimitError(event'.error)
              /\ Admissible(event'.args, ALLOW_LIST).ok =>
                   /\ event'.kind = "dispatched"
                   /\ sendMailCalls' = sendMailCalls + 1 ]_vars

\* Limit -1: four sends handed to the transport within a minute, the limiter
\* state as it was at startup
C12_Witness ==
  /\ RATE_LIMIT_PER_MINUTE = Num(0 - 1)
  /\ Len(admitTimes) >= 4
  /\ admitTimes[4] - admitTimes[1] < WINDOW_MS
  /\ admitTimes[4] > 0
  /\ sendMailCalls >= 4
  /\ event.kind = "dispatched"
  /\ rateLimiterState = [windowStart |-> 0, count |-> 0]

\* A step in which a tool call is answered with an error
ErrorStep == event' # event /\ event'.kind \in {"rejected", "failed"}

\* C13: a tool call that fails is answered with the error kind of its cause:
\* arguments that are not an object, fail the schema, hold a CR or LF in a
\* header field or leave no recipient give invalid-parameters; an allow-list
\* violation or a full window gives invalid-request; a transport failure gives
\* internal-error; an unknown tool name gives method-not-found.
C13_ErrorKinds ==
  [][ /\ ErrorStep =>
           IF event'.kind = "failed" THEN
             IF event'.tool = "send_email"
               THEN /\ TransportAnswers
                    /\ ~attempt'.outcome.ok
                    /\ event'.error.code = "InternalError"
               ELSE /\ event'.tool \notin {"send_email", "health_check"}
                    /\ event'.error.code = "MethodNotFound"
           ELSE IF ~WellFormed(event'.args) THEN
             event'.error.code = "InvalidParams"
           ELSE
             /\ (ALLOW_LIST # {} /\ NotAllowed(event'.args) # <<>>) \/ WindowFull
             /\ event'.error.code = "InvalidRequest"
      /\ (TransportAnswers /\ ~attempt'.outcome.ok) =>
           /\ event'.kind = "failed"
           /\ event'.error.code = "InternalError"
      /\ (SendStep /\ event'.args.t = "object"
            /\ (\/ HasLineBreak(event'.args.subject) \/ HasLineBreak(event'.args.to)
                \/ HasLineBreak(event'.args.cc) \/ HasLineBreak(event'.args.bcc)
                \/ NoRecipientIn(event'.args.to))) =>
           /\ event'.kind = "rejected"
           /\ event'.error.code = "InvalidParams" ]_vars

\* The last call named a tool the server does not have and was answered with
\* method-not-found
C13_Witness ==
  /\ calls = MaxCalls
  /\ event = Failed(calls, "list_tools",
                    McpError("MethodNotFound", <<"Unknown tool: ", "list_tools">>))

\* C14: a transport failure ends its request and is not retried: the transport
\* send is invoked once per admitted request, at its admission, and when it
\* fails the invocation ends in that step, the last-send slot holding Error,
\* the time and the failure's message, the caller answered with internal-error
\* wrapping that message, the transport not invoked again and the process
\* still running.
C14_FailureNotRetried ==
  [][ /\ sendMailCalls' # sendMailCalls =>
           /\ SendStep
           /\ event'.kind = "dispatched"
           /\ sendMailCalls' = sendMailCalls + 1
      /\ (\E i \in Slots : sends[i] # Idle /\ sends'[i] = Idle) => TransportAnswers
      /\ (TransportAnswers /\ ~attempt'.outcome.ok) =>
           /\ \E i \in Slots :
                /\ sends[i] # Idle
                /\ sends[i].id = attempt'.id
                /\ sends' = [sends EXCEPT ![i] = Idle]
           /\ sendMailCalls' = sendMailCalls
           /\ lastSendResult' = [status |-> "error", timestamp |-> now,
                                 error |-> attempt'.outcome.message]
           /\ event' = Failed(attempt'.id, "send_email",
                              McpError("InternalError",
                                       <<"Failed to send email: ",
                                         attempt'.outcome.message>>))
           /\ process' = Running ]_vars

\* A send failed in the transport and a later request was then handed to the
\* transport, the slot still holding the failure
C14_Witness ==
  /\ process = Running
  /\ attempt # NoAttempt
  /\ ~attempt.outcome.ok
  /\ lastSendResult = [status |-> "error", timestamp |-> attempt.at, error |-> <<"E">>]
  /\ event.kind = "dispatched"
  /\ event.id > attempt.id
  /\ event.id = calls
  /\ \A i \in Slots : sends[i] # Idle => sends[i].id > attempt.id
  /\ sendMailCalls = 2

\* The positions around the pieces of `s`: before it, after it, and its commas
Cuts(s) == {0, Len(s) + 1} \cup {k \in 1..Len(s) : s[k] = ","}

\* The positions of the piece after the cut `a` that hold no white space
Inked(s, a) ==
  {k \in (a + 1)..Len(s) :
     /\ s[k] \notin {" ", "\n", "\r"}
     /\ \A c \in Cuts(s) : ~(a < c /\ c <= k)}

Least(set) == CHOOSE k \in set : \A j \in set : k <= j
Greatest(set) == CHOOSE k \in set : \A j \in set : k >= j

\* The pieces of `s` between commas, white space at their ends taken off, the
\* pieces that are then empty left out
Pieces(s) ==
  LET kept == {a \in Cuts(s) : Inked(s, a) # {}}
      start == SubSeqAt([k \in 1..(Len(s) + 1) |-> k - 1], {a + 1 : a \in kept})
  IN [n \in 1..Cardinality(kept) |->
        SubSeq(s, Least(Inked(s, start[n])), Greatest(Inked(s, start[n])))]

\* The recipient list of an absent value or of a string
PiecesOf(value) == IF value.t = "undefined" THEN <<>> ELSE Pieces(value.v)

\* A recipient argument the normalization gets and accepts
Listable(value) == value.t \in {"undefined", "string"} /\ ~HasLineBreak(value)

\* C15: normalizing a comma-separated recipient string gives its pieces between
\* commas, trimmed, the empty ones left out, in their order and with
\* duplicates kept; an absent or empty value gives the empty list and no
\* error. The lists of a request handed to the transport are these.
C15_NormalizationKeepsOrder ==
  (event.kind \in {"rejected", "dispatched"} /\ event.args.t = "object") =>
    /\ \A value \in {event.args.to, event.args.cc, event.args.bcc} :
         Listable(value) => normalizeRecipientList(value, "to") = Ok(PiecesOf(value))
    /\ event.kind = "dispatched" =>
         /\ sends[1].normalized.to = PiecesOf(event.args.to)
         /\ sends[1].normalized.cc = PiecesOf(event.args.cc)
         /\ sends[1].normalized.bcc = PiecesOf(event.args.bcc)
         /\ event.mail.to = Join(PiecesOf(event.args.to))

\* "a, a, b" was handed to the transport as the three recipients a, a, b
C15_Witness ==
  /\ event.kind = "dispatched"
  /\ event.args = DuplicateRequest
  /\ sends[1].normalized.to = << <<"a">>, <<"a">>, <<"b">> >>
  /\ sends[1].normalized.cc = <<>>
  /\ event.mail.to = <<"a", ",", " ", "a", ",", " ", "b">>

\* C16 as stated: with limiting enabled, the count is 0 whenever 60000 ms or
\* more have passed since windowStart
C16_CountZeroAfterWindow ==
  (LimitEnabled(RATE_LIMIT_PER_MINUTE) /\ now - rateLimiterState.windowStart >= 60000)
    => rateLimiterState.count = 0

\* C16, amended: the rollover is lazy. With limiting enabled, windowStart and
\* count change only when a send_email call reaches the limiter: 60000 ms or
\* more after windowStart the call sets windowStart to now and is admitted as
\* the first of its window (count 1), earlier it leaves windowStart and adds at
\* most 1 to the count. Until such a call the count stays, so the occupancy
\* health_check reports is the number of sends admitted since windowStart,
\* also when that window is over.
C16_LazyRollover ==
  [][ LimitEnabled(RATE_LIMIT_PER_MINUTE) =>
      /\ rateLimiterState' # rateLimiterState =>
           SendStep /\ Admissible(event'.args, ALLOW_LIST).ok
      /\ (SendStep /\ Admissible(event'.args, ALLOW_LIST).ok) =>
           IF now - rateLimiterState.windowStart >= 60000
             THEN rateLimiterState' = [windowStart |-> now, count |-> 1]
             ELSE /\ rateLimiterState'.windowStart = rateLimiterState.windowStart
                  /\ rateLimiterState'.count =
                       rateLimiterState.count
                         + (IF event'.kind = "dispatched" THEN 1 ELSE 0)
      /\ HealthAnswers =>
           /\ event'.kind = "returned"
           /\ event'.content.rateLimit =
                <<"Rate limit: ",
                  Cardinality(AdmittedSince(rateLimiterState.windowStart)), "/",
                  RATE_LIMIT_PER_MINUTE.v, " in current minute window">> ]_vars

\* A report built 60000 ms or more after windowStart, as the time of its
\* last-send line tells, shows the two sends of the window that is over, none
\* having been admitted in the minute before
C16_Witness ==
  /\ RATE_LIMIT_PER_MINUTE = Num(2)
  /\ event.kind = "returned"
  /\ event.tool = "health_check"
  /\ event.id = calls
  /\ attempt # NoAttempt
  /\ attempt.at - rateLimiterState.windowStart >= 60000
  /\ event.content.lastSend = LastSendLine(attempt)
  /\ event.content.rateLimit =
       <<"Rate limit: ", 2, "/", 2, " in current minute window">>
  /\ rateLimiterState.count = 2
  /\ \A k \in 1..Len(admitTimes) : admitTimes[k] <= now - 60000

\* A step in which the connectivity probe answers with a failure: at startup
\* or to health_check
ProbeFails ==
  \E probe \in ProbeOutcomes : ~probe.ok /\ (Main(probe) \/ HealthReturns(probe))

\* C17 as stated: whenever the connectivity probe fails the process keeps
\* running
C17_ProbeFailureNeverFatal ==
  [][ ProbeFails => process' = Running ]_vars

\* What the code does where C17 fails: a probe failure during health_check is
\* not fatal, the process keeps running and the call returns the failure as
\* the text of its SMTP line; a probe failure at startup ends the process with
\* exit code 1 before any request is accepted, and an exited process handles
\* nothing more.
ProbeFatalOnlyAtStartup ==
  [][ /\ (HealthAnswers /\ ProbeFails) =>
           /\ process = Running
           /\ process' = Running
           /\ event'.kind = "returned"
           /\ event'.content.smtp = <<"SMTP: ", "error: ", <<"V">>>>
      /\ (ProbeFails /\ ~HealthAnswers) =>
           /\ process = Starting
           /\ process' = Exited(1)
      /\ process' # process =>
           /\ process = Starting
           /\ process' \in {Running, Exited(1)}
           /\ calls = 0
           /\ event = NoEvent
           /\ UNCHANGED <<calls, event, health, sends>>
      /\ process # Running => UNCHANGED <<calls, event, health, sends>> ]_vars

\* The process has exited with code 1 at startup, no request handled and no
\* health_check report made
C17_Witness ==
  /\ process = Exited(1)
  /\ calls = 0
  /\ event = NoEvent
  /\ health = Idle

\* The error of a call turned away by the allow-list guard
IsAllowListError(error) ==
  error.code = "InvalidRequest"
    /\ error.message[1] = "Recipient(s) not permitted by allow list: "

\* C18: with an empty allow list the guard lets everything through: a call
\* whose arguments passed validation and normalization goes on to the limiter
\* whatever its recipients, being handed to the transport unless the window is
\* full, and no call fails with an allow-list violation.
C18_EmptyAllowListPasses ==
  [][ (SendStep /\ ALLOW_LIST = {}) =>
      /\ event'.kind = "rejected" => ~IsAllowListError(event'.error)
      /\ WellFormed(event'.args) =>
           IF WindowFull
             THEN /\ event'.kind = "rejected"
                  /\ event'.error = RateLimitError(RATE_LIMIT_PER_MINUTE.v)
             ELSE /\ event'.kind = "dispatched"
                  /\ sends'[1].normalized.to \o sends'[1].normalized.cc
                       \o sends'[1].normalized.bcc = Recipients(event'.args) ]_vars

\* No allow list: a request to b, A and a was handed to the transport
C18_Witness ==
  /\ ALLOW_LIST = {}
  /\ event.kind = "dispatched"
  /\ event.args.to = Str(<<"b">>)
  /\ event.args.cc = Str(<<"A">>)
  /\ event.args.bcc = Str(<<"a">>)
  /\ event.mail.to = <<"b">>
  /\ event.mail.cc = Str(<<"A">>)
  /\ event.mail.bcc = Str(<<"a">>)

\* The four version strings the server recognizes, oldest first
RecognizedTlsVersions ==
  << <<"T", "L", "S", "v", "1">>,
     <<"T", "L", "S", "v", "1", ".", "1">>,
     <<"T", "L", "S", "v", "1", ".", "2">>,
     <<"T", "L", "S", "v", "1", ".", "3">> >>

\* C19 as stated: a recognized version is used unchanged, every other string
\* is replaced by the second-oldest recognized version
C19_FallbackSecondOldest ==
  TLS_MIN_VERSION =
    IF \E k \in 1..4 : PROTONMAIL_TLS_MIN_VERSION = RecognizedTlsVersions[k]
      THEN PROTONMAIL_TLS_MIN_VERSION
      ELSE RecognizedTlsVersions[2]

\* C19, amended: the configured minimum TLS version is used unchanged when it
\* is one of the four recognized version strings (TLSv1, TLSv1.1, TLSv1.2,
\* TLSv1.3), compared exactly; every other string is replaced by TLSv1.2, the
\* third-oldest (second-newest) of the four.
C19_FallbackTls12 ==
  TLS_MIN_VERSION =
    IF \E k \in 1..4 : PROTONMAIL_TLS_MIN_VERSION = RecognizedTlsVersions[k]
      THEN PROTONMAIL_TLS_MIN_VERSION
      ELSE RecognizedTlsVersions[3]

\* The server runs with TLSv1.2 where "tlsv1.1" was asked for
C19_Witness ==
  /\ process = Running
  /\ PROTONMAIL_TLS_MIN_VERSION = <<"t", "l", "s", "v", "1", ".", "1">>
  /\ TLS_MIN_VERSION = <<"T", "L", "S", "v", "1", ".", "2">>

\* C20: with limiting enabled (a finite limit L > 0) the count of the window is
\* at least 0 and at most L in every reachable state, whatever the order of
\* send_email calls, their answers, health_check calls and clock steps.
C20_CountWithinLimit ==
  (~RATE_LIMIT_PER_MINUTE.nan /\ RATE_LIMIT_PER_MINUTE.v > 0) =>
    /\ rateLimiterState.count >= 0
    /\ rateLimiterState.count <= RATE_LIMIT_PER_MINUTE.v

\* Limit 2: the window is full, a third call was turned away while a
\* health_check waits for its probe, and the count is 2
C20_Witness ==
  /\ RATE_LIMIT_PER_MINUTE = Num(2)
  /\ rateLimiterState.count = 2
  /\ health # Idle
  /\ event.kind = "rejected"
  /\ event.error = RateLimitError(2)
  /\ event.id > health.id
  /\ sendMailCalls = 2

\* C21: a send_email call that is turned away before the transport is invoked,
\* for its arguments, a line break, the allow list or the rate limit, leaves
\* windowStart, count and the last-send slot as they were, also when the call
\* comes 60000 ms or more after windowStart.
C21_RejectedLeavesState ==
  [][ (SendStep /\ event'.kind = "rejected") =>
      /\ rateLimiterState' = rateLimiterState
      /\ lastSendResult' = lastSendResult
      /\ NoSendMail ]_vars

\* Limit 1, after a rollover and a send answered: a call has been turned away
\* for the rate limit, the window and the slot being those the send left
C21_Witness ==
  /\ RATE_LIMIT_PER_MINUTE = Num(1)
  /\ event.kind = "rejected"
  /\ event.error = RateLimitError(1)
  /\ event.id = calls
  /\ Len(admitTimes) = 2
  /\ admitTimes[2] >= 60000
  /\ now > admitTimes[2]
  /\ rateLimiterState = [windowStart |-> admitTimes[2], count |-> 1]
  /\ attempt # NoAttempt
  /\ lastSendResult = SlotOf(attempt)
  /\ attempt.at = now

\* C22: the last-send slot holds the outcome of the send whose transport call
\* was answered last, whatever the order in which the sends were dispatched:
\* each answer overwrites the slot with its own outcome and time, also when a
\* send dispatched later has been answered before.
C22_LastAnsweredWins ==
  [][ \A i \in Slots, outcome \in SendOutcomes :
        SendReturns(i, outcome) =>
          /\ lastSendResult' =
               IF outcome.ok
                 THEN [status |-> "success", timestamp |-> now,
                       details |-> outcome.messageId]
                 ELSE [status |-> "error", timestamp |-> now,
                       error |-> outcome.message]
          /\ event'.id = sends[i].id
          /\ \A j \in Slots : j # i => sends'[j] = sends[j] ]_vars

\* Two sends overlapped; the second was answered first, the first was answered
\* later and failed: the slot holds the failure of the first
C22_Witness ==
  /\ calls = 2
  /\ sendMailCalls = 2
  /\ \A i \in Slots : sends[i] = Idle
  /\ attempt # NoAttempt
  /\ attempt.id = 1
  /\ attempt.at > admitTimes[2]
  /\ event = Failed(1, "send_email",
                    McpError("InternalError", <<"Failed to send email: ", <<"E">>>>))
  /\ lastSendResult = [status |-> "error", timestamp |-> now, error |-> <<"E">>]

\* The call `id` is at the transport
Pending(id) == \E i \in Slots : sends[i] # Idle /\ sends[i].id = id

\* The call `id` has just finished: the slot holds its outcome and the caller
\* has its answer
Finished(id) ==
  /\ ~Pending(id)
  /\ attempt # NoAttempt
  /\ attempt.id = id
  /\ event.id = id
  /\ event.tool = "send_email"
  /\ lastSendResult.status \in {"success", "error"}
  /\ lastSendResult.timestamp = attempt.at
  /\ IF attempt.outcome.ok
       THEN /\ lastSendResult.status = "success"
            /\ event.kind = "returned"
            /\ event.content[1] = "Email sent successfully to "
       ELSE /\ lastSendResult.status = "error"
            /\ lastSendResult.error = attempt.outcome.message
            /\ event.kind = "failed"
            /\ event.error = McpError("InternalError",
                                      <<"Failed to send email: ",
                                        attempt.outcome.message>>)

\* C23: the transport answering each call in the end, every send_email call
\* handed to the transport finishes, other sends and health_check overlapping
\* it or not: it writes its outcome, Success or Error, to the last-send slot
\* and answers the caller with the confirmation or the internal-error; and the
\* slot is written only in the step in which one send is answered, once.
C23_DispatchedSendFinishes ==
  /\ \A id \in 1..MaxCalls : Pending(id) ~> Finished(id)
  /\ [][ lastSendResult' # lastSendResult =>
           \E i \in Slots :
             /\ sends[i] # Idle
             /\ sends' = [sends EXCEPT ![i] = Idle]
             /\ attempt'.id = sends[i].id ]_vars

\* The first send has finished with a failure while the second send and a
\* health_check, both begun before, are still waiting
C23_Witness ==
  /\ Finished(1)
  /\ ~attempt.outcome.ok
  /\ Pending(2)
  /\ health # Idle
  /\ health.id = 3

\* A recipient list as a header: joined with ", ", absent when empty
Listed(pieces) == IF pieces = <<>> THEN Undefined ELSE Str(Join(pieces))

\* C24: the message handed to the transport for an admitted request has the
\* configured account as sender, `to` the normalized to-list joined with
\* ", ", cc and bcc joined the same way or absent when their list is empty,
\* the subject with the white space at its ends taken off, and the body as
\* given in the html field alone when isHtml is true, in the text field alone
\* when isHtml is false or absent.
C24_MailHandedToTransport ==
  event.kind = "dispatched" =>
    LET args == event.args
        mail == event.mail
        asHtml == args.isHtml = Bool(TRUE)
    IN /\ mail.from = PROTONMAIL_USERNAME
       /\ mail.to = Join(sends[1].normalized.to)
       /\ mail.to = Join(PiecesOf(args.to))
       /\ mail.cc = Listed(sends[1].normalized.cc)
       /\ mail.cc = Listed(PiecesOf(args.cc))
       /\ mail.bcc = Listed(sends[1].normalized.bcc)
       /\ mail.bcc = Listed(PiecesOf(args.bcc))
       /\ mail.subject = Trim(args.subject.v)
       /\ ~HasLineBreak(Str(mail.subject))
       /\ args.isHtml \in {Undefined, Bool(TRUE), Bool(FALSE)}
       /\ mail.html = IF asHtml THEN args.body ELSE Undefined
       /\ mail.text = IF asHtml THEN Undefined ELSE args.body
       /\ (mail.html = Undefined) # (mail.text = Undefined)

\* The HTML request was handed to the transport: cc "a, b", bcc "b", the
\* subject trimmed, the body as given in the html field and no text field
C24_Witness ==
  /\ event.kind = "dispatched"
  /\ event.args = HtmlRequest
  /\ event.mail = [from |-> "me@proton.me",
                   to |-> <<"a">>,
                   cc |-> Str(<<"a", ",", " ", "b">>),
                   bcc |-> Str(<<"b">>),
                   subject |-> <<"s">>,
                   text |-> Undefined,
                   html |-> Str(<<"\n", "x", " ">>)]

=============================================================================
